---- MODULE Spec2Model ----
(***************************************************************************)
(* Sparse matrix-matrix multiply on coordinate (COO) matrices, as written  *)
(* in cusp/detail/generic/detail/multiply.inl: expand every partial        *)
(* product, sort by (row, column), merge duplicates.  Arrays are TLA+      *)
(* sequences; the code's 0-based element s[i] is At(s, i).                 *)
(***************************************************************************)
EXTENDS Integers, Sequences, FiniteSets, Bags, TLC

\* Bounds of the model.
MaxDim == 2
MaxAEntries == 2
MaxBEntries == 2
\* Width of IndexType in Spec (wide enough for every intermediate count) and
\* in SpecNarrow (small enough for the intermediate count to overflow).
IndexBits == 8
NarrowBits == 2

Values == {-1, 2}

VARIABLES
    A, B,               \* the operands (read-only)
    C,                  \* the destination
    Cprior,             \* what C held when multiply was called
    bits,               \* number of bits of IndexType
    pc,                 \* the statement multiply is about to execute
    status,             \* "running", "ok", "bad_alloc" or "undefined"
    B_row_offsets, B_row_lengths, segment_lengths, output_ptr,
    coo_num_nonzeros, segments, gather_locations,
    pending,            \* entries of A whose scatter_if write is still to happen
    I, J, V

vars == <<A, B, C, Cprior, bits, pc, status, B_row_offsets, B_row_lengths,
          segment_lengths, output_ptr, coo_num_nonzeros, segments,
          gather_locations, pending, I, J, V>>

transients == <<B_row_offsets, B_row_lengths, segment_lengths, output_ptr,
                coo_num_nonzeros, segments, gather_locations, pending, I, J, V>>

----------------------------------------------------------------------------
\* Containers

At(s, i) == s[i + 1]

Indices(s) == 0 .. (Len(s) - 1)

Fill(n, x) == [i \in 1..n |-> x]

Coo(m, n, rows, cols, vals) ==
    [num_rows |-> m, num_cols |-> n, num_entries |-> Len(rows),
     row_indices |-> rows, column_indices |-> cols, values |-> vals]

\* coo_matrix::resize keeps the leading elements of each array and
\* value-initialises the new ones.
ResizeSeq(s, n) == [i \in 1..n |-> IF i <= Len(s) THEN s[i] ELSE 0]

CooResize(M, m, n, nnz) ==
    [num_rows |-> m, num_cols |-> n, num_entries |-> nnz,
     row_indices |-> ResizeSeq(M.row_indices, nnz),
     column_indices |-> ResizeSeq(M.column_indices, nnz),
     values |-> ResizeSeq(M.values, nnz)]

\* IndexType arithmetic: an unsigned integer of `bits` bits, sums wrap
Modulus == 2 ^ bits

MaxIndex == Modulus - 1

Wrap(x) == x % Modulus

----------------------------------------------------------------------------
\* Primitives

\* cusp::detail::indices_to_offsets: offsets[i] = number of indices below i.
IndicesToOffsets(indices, num_rows) ==
    [i \in 1..(num_rows + 1) |->
        Cardinality({k \in 1..Len(indices) : indices[k] < i - 1})]

\* thrust::transform(offsets+1, end, offsets, lengths, minus)
RowLengths(offsets) ==
    [r \in 1..(Len(offsets) - 1) |-> Wrap(offsets[r + 1] - offsets[r])]

\* thrust::gather(result, result_end, map, input): result[i] = input[map[i]]
Gather(map, input) == [i \in 1..Len(map) |-> At(input, map[i])]

GatherInRange(map, input) == \A i \in 1..Len(map) : map[i] \in Indices(input)

RECURSIVE SumTo(_, _)
SumTo(s, n) == IF n = 0 THEN 0 ELSE Wrap(SumTo(s, n - 1) + s[n])

\* thrust::exclusive_scan(first, last, result, init)
ExclusiveScan(s, init) == [i \in 1..Len(s) |-> Wrap(init + SumTo(s, i - 1))]

\* OutputPtr with the scan taken inclusive
OutputPtrInclusive(lengths) ==
    LET n == Len(lengths)
        scan == [i \in 1..n |-> SumTo(lengths, i)]
    IN  Append(scan, Wrap(scan[n] + lengths[n]))

\* output_ptr: exclusive scan of the segment lengths, then the trailing total
OutputPtr(lengths) ==
    LET n == Len(lengths)
        scan == ExclusiveScan(lengths, 0)
    IN  Append(scan, Wrap(scan[n] + lengths[n]))

\* ScatterIfWrites with the stencil ignored (a plain scatter)
ScatterAlways(n, stencil) == TRUE

\* scatter_if, one element: output[map[n]] = input[n] when stencil[n]
ScatterIfWrites(n, stencil) == At(stencil, n) # 0

ScatterElem(n, input, map, stencil, output) ==
    IF ScatterIfWrites(n, stencil)
    THEN [output EXCEPT ![At(map, n) + 1] = At(input, n)]
    ELSE output

ScatterElemInRange(n, map, stencil, output) ==
    ScatterIfWrites(n, stencil) => At(map, n) \in Indices(output)

\* scatter_if, the elements taken in index order
RECURSIVE ScatterIfFrom(_, _, _, _, _)
ScatterIfFrom(n, input, map, stencil, output) ==
    IF n >= Len(input) THEN output
    ELSE ScatterIfFrom(n + 1, input, map, stencil,
                       ScatterElem(n, input, map, stencil, output))

ScatterIf(input, map, stencil, output) ==
    ScatterIfFrom(0, input, map, stencil, output)

CountingSeq(n) == [i \in 1..n |-> i - 1]

Maximum(a, b) == IF a >= b THEN a ELSE b

\* thrust::inclusive_scan(first, last, result, maximum)
RECURSIVE MaxTo(_, _)
MaxTo(s, n) == IF n = 1 THEN s[1] ELSE Maximum(MaxTo(s, n - 1), s[n])

InclusiveScanMax(s) == [i \in 1..Len(s) |-> MaxTo(s, i)]

\* InclusiveSegmentedScan with the keys ignored (a plain inclusive scan)
InclusiveScanSum(s, keys) == [i \in 1..Len(s) |-> SumTo(s, i)]

\* thrust::experimental::inclusive_segmented_scan(first, last, keys, result):
\* a running sum that restarts where the key changes
RECURSIVE SegSumTo(_, _, _)
SegSumTo(s, keys, n) ==
    IF n = 1 \/ keys[n] # keys[n - 1] THEN s[n]
    ELSE Wrap(SegSumTo(s, keys, n - 1) + s[n])

InclusiveSegmentedScan(s, keys) == [i \in 1..Len(s) |-> SegSumTo(s, keys, i)]

Multiplies(a, b) == a * b

\* thrust::transform(temp1, temp1_end, temp2, V, multiplies)
Products(s, t) == [i \in 1..Len(s) |-> Multiplies(s[i], t[i])]


\* thrust::sort_by_key is not a stable sort: it may leave the elements in any
\* order in which the keys ascend.
RECURSIVE PermSeqs(_)
PermSeqs(S) ==
    IF S = {} THEN {<<>>}
    ELSE UNION {{<<x>> \o p : p \in PermSeqs(S \ {x})} : x \in S}

Ascending(keys) == \A i \in 1..(Len(keys) - 1) : keys[i] <= keys[i + 1]

Permute(s, p) == [i \in 1..Len(s) |-> s[p[i]]]

SortByKey(keys, v1, v2) ==
    {<<Permute(keys, p), Permute(v1, p), Permute(v2, p)>> :
        p \in {q \in PermSeqs(1..Len(keys)) : Ascending(Permute(keys, q))}}

\* UniqueByKey keeping the first value of each run instead of the run's sum
RECURSIVE KeepFirstFrom(_, _, _, _, _)
KeepFirstFrom(n, i, j, v, acc) ==
    IF n > Len(i) THEN acc
    ELSE LET m == Len(acc.I)
             same == m > 0 /\ acc.I[m] = i[n] /\ acc.J[m] = j[n]
         IN  KeepFirstFrom(n + 1, i, j, v,
                IF same THEN acc
                ELSE [I |-> Append(acc.I, i[n]), J |-> Append(acc.J, j[n]),
                      V |-> Append(acc.V, v[n])])

UniqueKeepFirst(i, j, v) == KeepFirstFrom(1, i, j, v, [I |-> <<>>, J |-> <<>>, V |-> <<>>])

\* unique_by_key with equal_to on (I, J) and plus on V: each run of adjacent
\* equal keys becomes one element carrying the sum of the run's values.
RECURSIVE UniqueFrom(_, _, _, _, _)
UniqueFrom(n, i, j, v, acc) ==
    IF n > Len(i) THEN acc
    ELSE LET m == Len(acc.I)
             same == m > 0 /\ acc.I[m] = i[n] /\ acc.J[m] = j[n]
         IN  UniqueFrom(n + 1, i, j, v,
                IF same
                THEN [acc EXCEPT !.V[m] = acc.V[m] + v[n]]
                ELSE [I |-> Append(acc.I, i[n]), J |-> Append(acc.J, j[n]),
                      V |-> Append(acc.V, v[n])])

UniqueByKey(i, j, v) == UniqueFrom(1, i, j, v, [I |-> <<>>, J |-> <<>>, V |-> <<>>])

\* EmptyResult shaped like the left operand
EmptyResultLikeLeft(a, b) == Coo(a.num_rows, a.num_cols, <<>>, <<>>, <<>>)

\* temp(A.num_rows, B.num_cols, 0) of the empty-operand path
EmptyResult(a, b) == Coo(a.num_rows, b.num_cols, <<>>, <<>>, <<>>)

----------------------------------------------------------------------------
\* Operands

Triples(m, n) == (0..(m - 1)) \X (0..(n - 1)) \X Values

EntrySeqs(m, n, max) == UNION {[1..k -> Triples(m, n)] : k \in 0..max}

FromEntries(m, n, es) ==
    Coo(m, n, [i \in 1..Len(es) |-> es[i][1]],
              [i \in 1..Len(es) |-> es[i][2]],
              [i \in 1..Len(es) |-> es[i][3]])

RowSorted(es) == \A i \in 1..(Len(es) - 1) : es[i][1] <= es[i + 1][1]

\* A: entries in any order, duplicates allowed
LeftOperands ==
    UNION {{FromEntries(m, n, es) : es \in EntrySeqs(m, n, MaxAEntries)} :
            m \in 1..MaxDim, n \in 1..MaxDim}

\* B: entries sorted by row
RightOperands ==
    UNION {{FromEntries(m, n, es) :
                es \in {e \in EntrySeqs(m, n, MaxBEntries) : RowSorted(e)}} :
            m \in 1..MaxDim, n \in 1..MaxDim}

PriorDestinations ==
    {Coo(0, 0, <<>>, <<>>, <<>>), Coo(3, 3, <<0, 2>>, <<1, 2>>, <<99, 99>>)}

Released ==
    /\ B_row_offsets' = <<>> /\ B_row_lengths' = <<>>
    /\ segment_lengths' = <<>> /\ output_ptr' = <<>>
    /\ coo_num_nonzeros' = 0 /\ segments' = <<>>
    /\ gather_locations' = <<>> /\ pending' = {}
    /\ I' = <<>> /\ J' = <<>> /\ V' = <<>>

InitWith(w) ==
    /\ A \in LeftOperands
    /\ B \in RightOperands
    /\ C \in PriorDestinations
    /\ Cprior = C
    /\ bits = w
    /\ pc = "start"
    /\ status = "running"
    /\ B_row_offsets = <<>> /\ B_row_lengths = <<>>
    /\ segment_lengths = <<>> /\ output_ptr = <<>>
    /\ coo_num_nonzeros = 0 /\ segments = <<>>
    /\ gather_locations = <<>> /\ pending = {}
    /\ I = <<>> /\ J = <<>> /\ V = <<>>

Init == InitWith(IndexBits)

InitNarrow == InitWith(NarrowBits)


----------------------------------------------------------------------------
\* multiply(A, B, C), statement by statement

Temp == Gather(A.column_indices, B_row_offsets)

\* the statements that construct, resize or copy an array
AllocStages ==
    {"start", "row_lengths", "segment_lengths", "output_ptr", "segments",
     "gather_locations", "expand", "sort_J", "sort_I", "unique",
     "resize", "assign_rows", "assign_cols", "assign_vals"}

\* the statement at pc would read or write outside an array
OutOfRange ==
    CASE pc = "segment_lengths" ->
            ~GatherInRange(A.column_indices, B_row_lengths)
      [] pc = "gather_locations" ->
            ~GatherInRange(A.column_indices, B_row_offsets)
      [] pc = "scatter_segments" ->
            \E n \in pending :
                ~ScatterElemInRange(n, output_ptr, segment_lengths, segments)
      [] pc = "scatter_gather" ->
            \E n \in pending :
                ~ScatterElemInRange(n, output_ptr, segment_lengths, gather_locations)
      [] pc = "expand" ->
            \/ ~GatherInRange(segments, A.row_indices)
            \/ ~GatherInRange(gather_locations, B.column_indices)
      [] OTHER -> FALSE

\* what the destination may hold once behaviour is undefined
UndefinedOutcomes ==
    {C, Coo(A.num_rows, B.num_cols, <<0>>, <<0>>, <<0>>)}

EmptyFastPath ==
    /\ pc = "start"
    /\ A.num_entries = 0 \/ B.num_entries = 0
    /\ C' = EmptyResult(A, B)
    /\ pc' = "done"
    /\ status' = "ok"
    /\ UNCHANGED <<A, B, Cprior, bits, transients>>

ComputeRowOffsets ==
    /\ pc = "start"
    /\ ~(A.num_entries = 0 \/ B.num_entries = 0)
    /\ B_row_offsets' = IndicesToOffsets(B.row_indices, B.num_rows)
    /\ pc' = "row_lengths"
    /\ UNCHANGED <<A, B, C, Cprior, bits, status, B_row_lengths, segment_lengths,
                   output_ptr, coo_num_nonzeros, segments, gather_locations,
                   pending, I, J, V>>

ComputeRowLengths ==
    /\ pc = "row_lengths"
    /\ B_row_lengths' = RowLengths(B_row_offsets)
    /\ pc' = "segment_lengths"
    /\ UNCHANGED <<A, B, C, Cprior, bits, status, B_row_offsets, segment_lengths,
                   output_ptr, coo_num_nonzeros, segments, gather_locations,
                   pending, I, J, V>>

ComputeSegmentLengths ==
    /\ pc = "segment_lengths"
    /\ ~OutOfRange
    /\ segment_lengths' = Gather(A.column_indices, B_row_lengths)
    /\ pc' = "output_ptr"
    /\ UNCHANGED <<A, B, C, Cprior, bits, status, B_row_offsets, B_row_lengths,
                   output_ptr, coo_num_nonzeros, segments, gather_locations,
                   pending, I, J, V>>

ComputeOutputPtr ==
    /\ pc = "output_ptr"
    /\ output_ptr' = OutputPtr(segment_lengths)
    /\ coo_num_nonzeros' = At(output_ptr', A.num_entries)
    /\ pc' = "segments"
    /\ UNCHANGED <<A, B, C, Cprior, bits, status, B_row_offsets, B_row_lengths,
                   segment_lengths, segments, gather_locations, pending, I, J, V>>

AllocSegments ==
    /\ pc = "segments"
    /\ segments' = Fill(coo_num_nonzeros, 0)
    /\ pending' = Indices(A.row_indices)
    /\ pc' = "scatter_segments"
    /\ UNCHANGED <<A, B, C, Cprior, bits, status, B_row_offsets, B_row_lengths,
                   segment_lengths, output_ptr, coo_num_nonzeros,
                   gather_locations, I, J, V>>

\* one element of the first scatter_if, by whichever worker gets to it
ScatterSegments ==
    /\ pc = "scatter_segments"
    /\ ~OutOfRange
    /\ \E n \in pending :
        /\ segments' = ScatterElem(n, CountingSeq(A.num_entries), output_ptr,
                                   segment_lengths, segments)
        /\ pending' = pending \ {n}
    /\ UNCHANGED <<A, B, C, Cprior, bits, pc, status, B_row_offsets,
                   B_row_lengths, segment_lengths, output_ptr, coo_num_nonzeros,
                   gather_locations, I, J, V>>

ScanSegments ==
    /\ pc = "scatter_segments"
    /\ pending = {}
    /\ segments' = InclusiveScanMax(segments)
    /\ pc' = "gather_locations"
    /\ UNCHANGED <<A, B, C, Cprior, bits, status, B_row_offsets, B_row_lengths,
                   segment_lengths, output_ptr, coo_num_nonzeros,
                   gather_locations, pending, I, J, V>>

AllocGatherLocations ==
    /\ pc = "gather_locations"
    /\ ~OutOfRange
    /\ gather_locations' = Fill(coo_num_nonzeros, 1)
    /\ pending' = Indices(A.row_indices)
    /\ pc' = "scatter_gather"
    /\ UNCHANGED <<A, B, C, Cprior, bits, status, B_row_offsets, B_row_lengths,
                   segment_lengths, output_ptr, coo_num_nonzeros, segments,
                   I, J, V>>

\* one element of the second scatter_if
ScatterGatherLocations ==
    /\ pc = "scatter_gather"
    /\ ~OutOfRange
    /\ \E n \in pending :
        /\ gather_locations' = ScatterElem(n, Temp, output_ptr, segment_lengths,
                                           gather_locations)
        /\ pending' = pending \ {n}
    /\ UNCHANGED <<A, B, C, Cprior, bits, pc, status, B_row_offsets,
                   B_row_lengths, segment_lengths, output_ptr, coo_num_nonzeros,
                   segments, I, J, V>>

ScanGatherLocations ==
    /\ pc = "scatter_gather"
    /\ pending = {}
    /\ gather_locations' = InclusiveSegmentedScan(gather_locations, segments)
    /\ pc' = "expand"
    /\ UNCHANGED <<A, B, C, Cprior, bits, status, B_row_offsets, B_row_lengths,
                   segment_lengths, output_ptr, coo_num_nonzeros, segments,
                   pending, I, J, V>>

Expand ==
    /\ pc = "expand"
    /\ ~OutOfRange
    /\ I' = Gather(segments, A.row_indices)
    /\ J' = Gather(gather_locations, B.column_indices)
    /\ V' = Products(Gather(segments, A.values), Gather(gather_locations, B.values))
    /\ pc' = "sort_J"
    /\ UNCHANGED <<A, B, C, Cprior, bits, status, B_row_offsets, B_row_lengths,
                   segment_lengths, output_ptr, coo_num_nonzeros, segments,
                   gather_locations, pending>>

SortByColumn ==
    /\ pc = "sort_J"
    /\ \E out \in SortByKey(J, I, V) :
        /\ J' = out[1] /\ I' = out[2] /\ V' = out[3]
    /\ pc' = "sort_I"
    /\ UNCHANGED <<A, B, C, Cprior, bits, status, B_row_offsets, B_row_lengths,
                   segment_lengths, output_ptr, coo_num_nonzeros, segments,
                   gather_locations, pending>>

SortByRow ==
    /\ pc = "sort_I"
    /\ \E out \in SortByKey(I, J, V) :
        /\ I' = out[1] /\ J' = out[2] /\ V' = out[3]
    /\ pc' = "unique"
    /\ UNCHANGED <<A, B, C, Cprior, bits, status, B_row_offsets, B_row_lengths,
                   segment_lengths, output_ptr, coo_num_nonzeros, segments,
                   gather_locations, pending>>

CompressDuplicates ==
    /\ pc = "unique"
    /\ LET u == UniqueByKey(I, J, V)
       IN  I' = u.I /\ J' = u.J /\ V' = u.V
    /\ pc' = "resize"
    /\ UNCHANGED <<A, B, C, Cprior, bits, status, B_row_offsets, B_row_lengths,
                   segment_lengths, output_ptr, coo_num_nonzeros, segments,
                   gather_locations, pending>>

ResizeC ==
    /\ pc = "resize"
    /\ C' = CooResize(C, A.num_rows, B.num_cols, Len(V))
    /\ pc' = "assign_rows"
    /\ UNCHANGED <<A, B, Cprior, bits, status, transients>>

AssignRows ==
    /\ pc = "assign_rows"
    /\ C' = [C EXCEPT !.row_indices = I]
    /\ pc' = "assign_cols"
    /\ UNCHANGED <<A, B, Cprior, bits, status, transients>>

AssignColumns ==
    /\ pc = "assign_cols"
    /\ C' = [C EXCEPT !.column_indices = J]
    /\ pc' = "assign_vals"
    /\ UNCHANGED <<A, B, Cprior, bits, status, transients>>

AssignValues ==
    /\ pc = "assign_vals"
    /\ C' = [C EXCEPT !.values = V]
    /\ pc' = "done"
    /\ status' = "ok"
    /\ Released
    /\ UNCHANGED <<A, B, Cprior, bits>>

\* an array construction, resize or copy throws std::bad_alloc; the stack
\* unwinds and the call's buffers are released
BadAlloc ==
    /\ pc \in AllocStages
    /\ pc = "start" => ~(A.num_entries = 0 \/ B.num_entries = 0)
    /\ ~OutOfRange
    /\ pc' = "done"
    /\ status' = "bad_alloc"
    /\ Released
    /\ UNCHANGED <<A, B, C, Cprior, bits>>

\* a gather or scatter_if outside its array: undefined behaviour
OutOfRangeAccess ==
    /\ OutOfRange
    /\ pc' = "done"
    /\ status' = "undefined"
    /\ C' \in UndefinedOutcomes
    /\ Released
    /\ UNCHANGED <<A, B, Cprior, bits>>

Next ==
    \/ EmptyFastPath
    \/ ComputeRowOffsets
    \/ ComputeRowLengths
    \/ ComputeSegmentLengths
    \/ ComputeOutputPtr
    \/ AllocSegments
    \/ ScatterSegments
    \/ ScanSegments
    \/ AllocGatherLocations
    \/ ScatterGatherLocations
    \/ ScanGatherLocations
    \/ Expand
    \/ SortByColumn
    \/ SortByRow
    \/ CompressDuplicates
    \/ ResizeC
    \/ AssignRows
    \/ AssignColumns
    \/ AssignValues
    \/ BadAlloc
    \/ OutOfRangeAccess

Spec == Init /\ [][Next]_vars

SpecNarrow == InitNarrow /\ [][Next]_vars


----------------------------------------------------------------------------
\* multiply(A, B, C) as a function of its operands: every destination the
\* statements above can produce for operands a and b

ExpansionOf(a, b) ==
    LET offsets == IndicesToOffsets(b.row_indices, b.num_rows)
        lengths == RowLengths(offsets)
        seglen == Gather(a.column_indices, lengths)
        optr == OutputPtr(seglen)
        total == At(optr, a.num_entries)
        segs == InclusiveScanMax(
                    ScatterIf(CountingSeq(a.num_entries), optr, seglen,
                              Fill(total, 0)))
        locs == InclusiveSegmentedScan(
                    ScatterIf(Gather(a.column_indices, offsets), optr, seglen,
                              Fill(total, 1)),
                    segs)
    IN  [I |-> Gather(segs, a.row_indices),
         J |-> Gather(locs, b.column_indices),
         V |-> Products(Gather(segs, a.values), Gather(locs, b.values))]

MultiplyResults(a, b) ==
    IF a.num_entries = 0 \/ b.num_entries = 0 THEN {EmptyResult(a, b)}
    ELSE LET e == ExpansionOf(a, b)
         IN  UNION {{LET u == UniqueByKey(s2[1], s2[2], s2[3])
                     IN  Coo(a.num_rows, b.num_cols, u.I, u.J, u.V) :
                        s2 \in SortByKey(s1[2], s1[1], s1[3])} :
                    s1 \in SortByKey(e.J, e.I, e.V)}

\* multiply on array2d: the triple loop
RECURSIVE DotTo(_, _, _, _, _)
DotTo(X, Y, i, j, k) ==
    IF k = 0 THEN 0
    ELSE DotTo(X, Y, i, j, k - 1) + X.values[<<i, k - 1>>] * Y.values[<<k - 1, j>>]

DenseMultiply(X, Y) ==
    [num_rows |-> X.num_rows, num_cols |-> Y.num_cols,
     values |-> [ij \in (0..(X.num_rows - 1)) \X (0..(Y.num_cols - 1)) |->
                    DotTo(X, Y, ij[1], ij[2], X.num_cols)]]

----------------------------------------------------------------------------
\* Vocabulary of the properties

Done == pc = "done" /\ status = "ok"

BothNonEmpty == A.num_entries > 0 /\ B.num_entries > 0

ColumnsInRange == \A n \in 1..A.num_entries : A.column_indices[n] < B.num_rows

\* the (A entry, B entry) pairs that meet: column of the one = row of the other
MatchingPairs ==
    {p \in (1..A.num_entries) \X (1..B.num_entries) :
        B.row_indices[p[2]] = A.column_indices[p[1]]}

PairTriple(p) ==
    <<A.row_indices[p[1]], B.column_indices[p[2]], A.values[p[1]] * B.values[p[2]]>>

\* T, the intermediate count, as a mathematical integer
TotalCount == Cardinality(MatchingPairs)

RECURSIVE EntrySum(_, _, _, _)
EntrySum(M, i, j, n) ==
    IF n = 0 THEN 0
    ELSE EntrySum(M, i, j, n - 1)
         + (IF M.row_indices[n] = i /\ M.column_indices[n] = j THEN M.values[n] ELSE 0)

\* a COO matrix read as a dense grid: stored values summed per coordinate
DenseOf(M) ==
    [num_rows |-> M.num_rows, num_cols |-> M.num_cols,
     values |-> [ij \in (0..(M.num_rows - 1)) \X (0..(M.num_cols - 1)) |->
                    EntrySum(M, ij[1], ij[2], M.num_entries)]]

WellFormed(M) ==
    /\ Len(M.row_indices) = M.num_entries
    /\ Len(M.column_indices) = M.num_entries
    /\ Len(M.values) = M.num_entries
    /\ \A n \in 1..M.num_entries :
        M.row_indices[n] \in 0..(M.num_rows - 1) /\ M.column_indices[n] \in 0..(M.num_cols - 1)

IsEmptyOfShape(M, m, n) ==
    /\ M.num_entries = 0 /\ M.num_rows = m /\ M.num_cols = n
    /\ M.row_indices = <<>> /\ M.column_indices = <<>> /\ M.values = <<>>

NoStageRun ==
    /\ B_row_offsets = <<>> /\ B_row_lengths = <<>> /\ segment_lengths = <<>>
    /\ output_ptr = <<>> /\ segments = <<>> /\ gather_locations = <<>>
    /\ I = <<>> /\ J = <<>> /\ V = <<>>

Occurrences(s, x) == Cardinality({t \in 1..Len(s) : s[t] = x})

Range(s) == {s[t] : t \in 1..Len(s)}

----------------------------------------------------------------------------
\* C1: after multiply returns, for matching dimensions and row-sorted B, the
\* entries of C are strictly ascending in (row, column) order, so no (row,
\* column) occurs twice -- whatever order the two sort_by_key passes leave
\* equal keys in.
C1_StrictlyAscending ==
    (Done /\ A.num_cols = B.num_rows) =>
        \A n \in 1..(C.num_entries - 1) :
            \/ C.row_indices[n] < C.row_indices[n + 1]
            \/ /\ C.row_indices[n] = C.row_indices[n + 1]
               /\ C.column_indices[n] < C.column_indices[n + 1]

\* C2: for matching dimensions the result has shape (A.num_rows, B.num_cols),
\* every index in range, and read as a dense grid it equals the dense
\* triple-loop product of the dense forms of A and B.
C2_ProductMatchesDense ==
    /\ A.num_cols = B.num_rows => status # "undefined"
    /\ (Done /\ A.num_cols = B.num_rows) =>
        /\ C.num_rows = A.num_rows /\ C.num_cols = B.num_cols
        /\ WellFormed(C)
        /\ DenseOf(C) = DenseMultiply(DenseOf(A), DenseOf(B))

C2_Witness ==
    /\ Done /\ A.num_cols = B.num_rows
    /\ C.num_entries >= 2
    /\ TotalCount > C.num_entries

\* C3: if A.num_cols differs from B.num_rows (operands non-empty), multiply
\* fails with DimensionMismatch before B's row offsets are computed and never
\* reads B's row lengths or offsets outside [0, B.num_rows).
C3_DimensionMismatchRejected ==
    (A.num_cols # B.num_rows /\ BothNonEmpty) =>
        /\ pc \in {"start", "done"}
        /\ pc = "done" => status = "DimensionMismatch"
        /\ status # "undefined"

\* C4: all-or-nothing on the destination: whenever a step has failed, C holds
\* exactly what it held before the call.
C4_AllOrNothing ==
    (pc = "done" /\ status = "bad_alloc") => C = Cprior

\* C5: if the intermediate count T exceeds the largest IndexType value,
\* multiply fails with CapacityExceeded: it never goes on past the layout
\* stage, and coo_num_nonzeros is never T reduced modulo 2^w.
C5_CapacityExceededRejected ==
    (BothNonEmpty /\ ColumnsInRange /\ TotalCount > MaxIndex) =>
        /\ pc \in {"start", "row_lengths", "segment_lengths", "output_ptr", "done"}
        /\ pc = "done" => status \in {"CapacityExceeded", "bad_alloc"}

\* C6: with an empty operand multiply runs none of the stages and leaves C with
\* no entries, shape (A.num_rows, B.num_cols) and empty arrays, whatever C held.
C6_EmptyOperand ==
    (A.num_entries = 0 \/ B.num_entries = 0) =>
        /\ pc \in {"start", "done"}
        /\ NoStageRun
        /\ pc = "done" => status = "ok" /\ IsEmptyOfShape(C, A.num_rows, B.num_cols)

C6_Witness ==
    /\ Done
    /\ A.num_entries > 0 /\ B.num_entries = 0
    /\ A.num_rows # A.num_cols
    /\ Cprior.num_entries > 0

\* every A entry's column selects an empty row of B
AllSegmentsEmpty ==
    /\ BothNonEmpty
    /\ ColumnsInRange
    /\ \A n \in 1..A.num_entries : \A e \in 1..B.num_entries :
            B.row_indices[e] # A.column_indices[n]

\* C7: operands non-empty but every A entry's column selects an empty row of B
\* (T = 0): no out-of-range access, every intermediate array has length 0, and
\* C ends with no entries and shape (A.num_rows, B.num_cols).
C7_EmptyProduct ==
    AllSegmentsEmpty =>
        /\ status # "undefined"
        /\ coo_num_nonzeros = 0
        /\ Len(segments) = 0 /\ Len(gather_locations) = 0
        /\ Len(I) = 0 /\ Len(J) = 0 /\ Len(V) = 0
        /\ Done => IsEmptyOfShape(C, A.num_rows, B.num_cols)

C7_Witness ==
    /\ AllSegmentsEmpty /\ Done
    /\ A.num_entries >= 2
    /\ Cprior.num_entries > 0

Triplets == [t \in 1..Len(I) |-> <<I[t], J[t], V[t]>>]

\* C9: the data-parallel expansion yields exactly one triplet per (A entry,
\* matching B entry) pair: the multiset of (I, J, V) triplets equals that of the
\* matching pairs, also when some A entries have segment length 0.
C9_ExpansionIsPairwise ==
    /\ (BothNonEmpty /\ ColumnsInRange) => status # "undefined"
    /\ pc = "sort_J" =>
        /\ Len(I) = TotalCount /\ Len(J) = TotalCount /\ Len(V) = TotalCount
        /\ \A x \in Range(Triplets) \cup {PairTriple(p) : p \in MatchingPairs} :
            Occurrences(Triplets, x) = Cardinality({p \in MatchingPairs : PairTriple(p) = x})

C9_Witness ==
    /\ pc = "sort_J"
    /\ Len(I) >= 2
    /\ At(segment_lengths, 0) = 0

LayoutComputed == status = "running" /\ Len(output_ptr) > 0

\* C10: the scatter_if writes are race free: output_ptr is non-decreasing from
\* 0 to T; an entry with a non-empty segment writes below T at a position no
\* other such entry writes; and whatever order the per-element writes happen
\* in, segments and gather_locations end as sequential execution leaves them.
C10_ScatterRaceFree ==
    /\ LayoutComputed =>
        /\ Len(output_ptr) = A.num_entries + 1
        /\ At(output_ptr, 0) = 0
        /\ At(output_ptr, A.num_entries) = TotalCount
        /\ \A n \in 0..(A.num_entries - 1) : At(output_ptr, n) <= At(output_ptr, n + 1)
        /\ \A n \in Indices(segment_lengths) :
            At(segment_lengths, n) > 0 =>
                /\ At(output_ptr, n) < TotalCount
                /\ \A m \in Indices(segment_lengths) :
                    (m # n /\ At(segment_lengths, m) > 0) =>
                        At(output_ptr, m) # At(output_ptr, n)
    /\ (pc = "scatter_segments" /\ pending = {}) =>
        segments = ScatterIf(CountingSeq(A.num_entries), output_ptr, segment_lengths,
                             Fill(TotalCount, 0))
    /\ (pc = "scatter_gather" /\ pending = {}) =>
        gather_locations = ScatterIf(Temp, output_ptr, segment_lengths,
                                     Fill(TotalCount, 1))
    /\ (BothNonEmpty /\ ColumnsInRange) => status # "undefined"

C10_Witness ==
    /\ pc = "scatter_gather" /\ pending = {}
    /\ A.num_entries >= 2
    /\ At(segment_lengths, 0) = 0
    /\ At(segment_lengths, 1) > 0

====
